---- MODULE Spec2Model ----
(***************************************************************************)
(* Metrics engine (utils.calculate_metrics) and heuristic insight          *)
(* generator (local_insights.generate_local_insights) of the               *)
(* InvestmentTracker dashboard, as a state machine over the caller's       *)
(* transaction table.                                                      *)
(*                                                                         *)
(* Amounts are whole currency units.  A quotient the code computes in      *)
(* floating point is kept exact, as a reduced fraction <<num, den>>, and   *)
(* every threshold test on a quotient is done by cross-multiplication.     *)
(* A missing cell (pandas NaN) of the Investment column is the empty       *)
(* sequence, a present one the one-element sequence <<v>>; a missing       *)
(* Account Type is the label NoLabel.                                      *)
(***************************************************************************)
EXTENDS Integers, Sequences, FiniteSets, TLC

\* ------------------------------------------------------------------ bounds

\* Largest number of rows of a transaction table.
MaxRows == 3

\* ------------------------------------------------------------- input domain

Missing == << >>

NoLabel == "<NA>"

Row(date, inv, bal, acct) ==
  [Date |-> date, Investment |-> inv, Balance |-> bal, AccountType |-> acct]

\* The rows a table is drawn from, dated <<year, month, day>>: the dates hold
\* a year boundary, a month boundary one day wide (Jan 31 / Feb 1) and 30 days
\* inside one month (Jan 1 / Jan 31).  No two balances are in the ratio of a
\* power (>= 1) of 1.01 or 1.03, where floating-point rounding would decide
\* the growth tier.
Rows ==
  { Row(<<2023, 12, 15>>, <<100>>, 100, "RSP"),
    Row(<<2023, 12, 15>>, <<0>>,   0,   "-"),
    Row(<<2024, 1, 1>>,   <<100>>, 100, "TFSA"),
    Row(<<2024, 1, 1>>,   Missing, 115, "RSP"),
    Row(<<2024, 1, 31>>,  <<0>>,   102, "RSP"),
    Row(<<2024, 2, 1>>,   <<100>>, 115, "TFSA"),
    Row(<<2024, 2, 1>>,   <<0>>,   100, NoLabel),
    Row(<<2024, 2, 1>>,   Missing, 216, "TFSA") }

\* Every table of at most MaxRows rows, in every row order, duplicates allowed.
Tables == UNION { [1..n -> Rows] : n \in 0..MaxRows }

\* A table of two account types funded with 900 and 100, in both row orders.
ScenarioTables ==
  LET a == Row(<<2024, 1, 1>>, <<900>>, 900,  "TFSA")
      b == Row(<<2024, 2, 1>>, <<100>>, 1000, "RSP")
  IN  { <<a, b>>, <<b, a>> }

\* ------------------------------------------------------------------- dates

Year(d)  == d[1]
Month(d) == d[2]
Day(d)   == d[3]

IsLeap(y) == (y % 4 = 0) /\ ((y % 100 # 0) \/ (y % 400 = 0))

DaysInMonth(y, m) ==
  IF m = 2 THEN (IF IsLeap(y) THEN 29 ELSE 28)
  ELSE IF m \in {4, 6, 9, 11} THEN 30 ELSE 31

RECURSIVE DaysBeforeMonth(_, _)
DaysBeforeMonth(y, m) ==
  IF m = 1 THEN 0 ELSE DaysBeforeMonth(y, m - 1) + DaysInMonth(y, m - 1)

\* Proleptic Gregorian ordinal of a date; Timestamp subtraction counts days
\* as the difference of two ordinals.
Ordinal(d) ==
  LET y == Year(d) - 1
  IN  365 * y + (y \div 4) - (y \div 100) + (y \div 400)
        + DaysBeforeMonth(Year(d), Month(d)) + Day(d)

\* Timestamp comparison a <= b.
DateLE(a, b) ==
  \/ Year(a) < Year(b)
  \/ /\ Year(a) = Year(b)
     /\ \/ Month(a) < Month(b)
        \/ (Month(a) = Month(b) /\ Day(a) <= Day(b))

\* (end.year - start.year) * 12 + (end.month - start.month)
MonthDiff(start, end) ==
  (Year(end) - Year(start)) * 12 + (Month(end) - Month(start))

\* ----------------------------------------------------------- column reductions

notna(cell) == cell # Missing

\* df['Investment'].sum(): NaN cells are skipped.
RECURSIVE InvestmentSum(_)
InvestmentSum(df) ==
  IF Len(df) = 0 THEN 0
  ELSE LET c == df[Len(df)].Investment
       IN  InvestmentSum(SubSeq(df, 1, Len(df) - 1))
             + (IF notna(c) THEN c[1] ELSE 0)

\* df['Date'].min() of a non-empty table.
RECURSIVE DateMin(_)
DateMin(df) ==
  IF Len(df) = 1 THEN df[1].Date
  ELSE LET m == DateMin(SubSeq(df, 1, Len(df) - 1))
       IN  IF DateLE(m, df[Len(df)].Date) THEN m ELSE df[Len(df)].Date

\* df['Date'].max() of a non-empty table.
RECURSIVE DateMax(_)
DateMax(df) ==
  IF Len(df) = 1 THEN df[1].Date
  ELSE LET m == DateMax(SubSeq(df, 1, Len(df) - 1))
       IN  IF DateLE(df[Len(df)].Date, m) THEN m ELSE df[Len(df)].Date

\* ---------------------------------------------------------------- fractions

RECURSIVE Gcd(_, _)
Gcd(a, b) == IF b = 0 THEN a ELSE Gcd(b, a % b)

Abs(x) == IF x < 0 THEN -x ELSE x

\* n / d for d > 0, reduced.
Frac(n, d) ==
  LET g == Gcd(Abs(n), d)
  IN  <<n \div g, d \div g>>

Num(q) == q[1]
Den(q) == q[2]

\* -------------------------------------------------------------- calculate_metrics

\* What a call yields when it raises instead of returning.
Fault(what) == [fault |-> what]

IsFault(r) == "fault" \in DOMAIN r

empty(df) == Len(df) = 0

\* Series.iloc[-1]: the positionally last cell as <<v>>, or << >> where
\* pandas raises IndexError (an empty column).
iloc_last_Balance(df) ==
  IF Len(df) = 0 THEN << >> ELSE <<df[Len(df)].Balance>>

\* Mutation: the last cell is read without the emptiness test.
current_balance_unguarded(df) == iloc_last_Balance(df)

\* df['Total Balance'].iloc[-1] if not df.empty else 0
current_balance_of(df) ==
  IF ~empty(df) THEN iloc_last_Balance(df) ELSE <<0>>

\* Mutation: the operands of the subtraction are exchanged.
total_earnings_swapped(current_balance, total_invested) ==
  total_invested - current_balance

\* current_balance - total_invested
total_earnings_of(current_balance, total_invested) ==
  current_balance - total_invested

\* Mutation: the span is taken from the first and last rows as positioned.
months_invested_positional(df) == MonthDiff(df[1].Date, df[Len(df)].Date)

\* months_invested of a non-empty table
months_invested_of(df) == MonthDiff(DateMin(df), DateMax(df))

\* Mutation: the divisor is months_invested itself, not floored at 1.
avg_monthly_earnings_unguarded(total_earnings, months_invested) ==
  IF months_invested = 0 THEN << >>
  ELSE <<Frac(total_earnings, months_invested)>>

\* total_earnings / max(months_invested, 1), as <<quotient>>, or << >> where
\* Python raises ZeroDivisionError.
avg_monthly_earnings_of(total_earnings, months_invested) ==
  LET divisor == IF months_invested > 1 THEN months_invested ELSE 1
  IN  IF divisor = 0 THEN << >> ELSE <<Frac(total_earnings, divisor)>>

calculate_metrics(df) ==
  LET total_invested == InvestmentSum(df)
      balance        == current_balance_of(df)
  IN  IF balance = << >> THEN Fault("IndexError")
      ELSE
      LET current_balance == balance[1]
          total_earnings  == total_earnings_of(current_balance, total_invested)
      IN  IF ~empty(df)
          THEN LET months_invested == months_invested_of(df)
                   avg == avg_monthly_earnings_of(total_earnings, months_invested)
               IN  IF avg = << >> THEN Fault("ZeroDivisionError")
                   ELSE [total_invested       |-> total_invested,
                         current_balance      |-> current_balance,
                         total_earnings       |-> total_earnings,
                         avg_monthly_earnings |-> avg[1],
                         months_invested      |-> months_invested]
          ELSE [total_invested       |-> total_invested,
                current_balance      |-> current_balance,
                total_earnings       |-> total_earnings,
                avg_monthly_earnings |-> Frac(0, 1),
                months_invested      |-> 0]

\* -------------------------------------------------------- generate_local_insights

\* DataFrame.sort_values('Date'): a new table holding the rows in ascending
\* Date order.  The default sort kind (quicksort) is not stable, so the order
\* of rows that share a Date is any order: the set of possible results.
IsSortedByDate(t) == \A i \in 1..(Len(t) - 1) : DateLE(t[i].Date, t[i + 1].Date)

Reorder(t, f) == [i \in 1..Len(t) |-> t[f[i]]]

sort_values(df) ==
  { s \in { Reorder(df, f) : f \in Permutations(1..Len(df)) } : IsSortedByDate(s) }

\* Mutation: the table is sorted in place (inplace=True).
df_sorted_in_place(df, sorted_df) == sorted_df

\* The caller's table after sorted_df = df.sort_values('Date'): sort_values
\* returns a new object (inplace defaults to False) and df is left as it was.
df_after_sort_values(df, sorted_df) == df

RECURSIVE Pow(_, _)
Pow(b, e) == IF e = 0 THEN 1 ELSE b * Pow(b, e - 1)

\* 1. Overall performance.
\* (total_earnings / total_invested) * 100 if total_invested > 0 else 0
roi_percent_of(total_earnings, total_invested) ==
  IF total_invested > 0 THEN Frac(total_earnings * 100, total_invested)
  ELSE Frac(0, 1)

\* (roi_percent / months_invested) * 12 if months_invested > 0 else 0
annualized_roi_of(roi_percent, months_invested) ==
  IF months_invested > 0
  THEN Frac(Num(roi_percent) * 12, Den(roi_percent) * months_invested)
  ELSE Frac(0, 1)

performance_tier(roi_percent) ==
  IF Num(roi_percent) > 15 * Den(roi_percent) THEN "excellent"
  ELSE IF Num(roi_percent) > 8 * Den(roi_percent) THEN "good"
  ELSE IF Num(roi_percent) > 0 THEN "positive"
  ELSE "flat/negative"

performance_insight(m) ==
  LET roi_percent == roi_percent_of(m.total_earnings, m.total_invested)
  IN  [kind           |-> "performance",
       tier           |-> performance_tier(roi_percent),
       roi_percent    |-> roi_percent,
       annualized_roi |-> annualized_roi_of(roi_percent, m.months_invested)]

\* 2. Growth trend.
\* The tier of ((last / first) ** (1 / months) - 1) * 100 for months > 0 and
\* balances >= 0.  The balances are numpy scalars, so a zero first_balance
\* divides to inf (last > 0: above every threshold) or nan (last = 0: every
\* comparison false) instead of raising.  rate > k is decided exactly, as
\* last * 100^months > first * (100 + k)^months.
growth_tier(first_balance, last_balance, months_between) ==
  IF first_balance = 0
  THEN (IF last_balance > 0 THEN "impressive" ELSE "change")
  ELSE IF last_balance * Pow(100, months_between)
            > first_balance * Pow(103, months_between) THEN "impressive"
  ELSE IF last_balance * Pow(100, months_between)
            > first_balance * Pow(101, months_between) THEN "solid"
  ELSE IF last_balance > first_balance THEN "steady"
  ELSE "change"

\* Mutation: the first and last rows are taken from the table as passed.
growth_rows_positional(df, sorted_df) == <<df[1], df[Len(df)]>>

\* <<sorted_df.iloc[0], sorted_df.iloc[-1]>> of a non-empty table.
growth_rows(df, sorted_df) == <<sorted_df[1], sorted_df[Len(sorted_df)]>>

\* << >> when a gate fails, else <<the growth insight>>.
growth_insight(df, sorted_df) ==
  IF Len(df) >= 3
  THEN LET first_date == growth_rows(df, sorted_df)[1].Date
           last_date  == growth_rows(df, sorted_df)[2].Date
       IN  IF Ordinal(last_date) - Ordinal(first_date) >= 30
           THEN LET first_balance  == growth_rows(df, sorted_df)[1].Balance
                    last_balance   == growth_rows(df, sorted_df)[2].Balance
                    months_between == MonthDiff(first_date, last_date)
                IN  IF months_between > 0
                    THEN << [kind           |-> "growth",
                             tier           |-> growth_tier(first_balance, last_balance,
                                                            months_between),
                             first_balance  |-> first_balance,
                             last_balance   |-> last_balance,
                             months_between |-> months_between] >>
                    ELSE << >>
           ELSE << >>
  ELSE << >>

\* 3. Account distribution.
\* One pass of the loop body over a row: the dict as a sequence of
\* <<account type, summed investment>> in insertion order.
HasKey(dist, k) == \E i \in 1..Len(dist) : dist[i][1] = k

distribution_add(dist, row) ==
  IF row.AccountType # NoLabel /\ row.AccountType # "-"
  THEN LET keyed == IF ~HasKey(dist, row.AccountType)
                    THEN Append(dist, <<row.AccountType, 0>>)
                    ELSE dist
       IN  IF notna(row.Investment) /\ row.Investment[1] > 0
           THEN [i \in 1..Len(keyed) |->
                   IF keyed[i][1] = row.AccountType
                   THEN <<keyed[i][1], keyed[i][2] + row.Investment[1]>>
                   ELSE keyed[i]]
           ELSE keyed
  ELSE dist

RECURSIVE account_distribution(_)
account_distribution(df) ==
  IF Len(df) = 0 THEN << >>
  ELSE distribution_add(account_distribution(SubSeq(df, 1, Len(df) - 1)),
                        df[Len(df)])

max_account_last(dist) == dist[Len(dist)]

\* max(account_distribution.items(), key=lambda x: x[1]): the first entry,
\* in insertion order, that holds the largest sum.
max_account_of(dist) ==
  LET i == CHOOSE i \in 1..Len(dist) :
             /\ \A j \in 1..Len(dist) : dist[j][2] <= dist[i][2]
             /\ \A j \in 1..(i - 1) : dist[j][2] < dist[i][2]
  IN  dist[i]

distribution_tier(percentage) ==
  IF Num(percentage) > 80 * Den(percentage) THEN "heavily concentrated"
  ELSE IF Num(percentage) > 60 * Den(percentage) THEN "significant allocation"
  ELSE "balanced"

distribution_emitted(dist) == Len(dist) > 1

distribution_insight(df, total_invested) ==
  LET dist == account_distribution(df)
  IN  IF distribution_emitted(dist)
      THEN LET max_account == max_account_of(dist)
               percentage  == IF total_invested > 0
                              THEN Frac(max_account[2] * 100, total_invested)
                              ELSE Frac(0, 1)
           IN  << [kind        |-> "distribution",
                   tier        |-> distribution_tier(percentage),
                   max_account |-> max_account[1],
                   percentage  |-> percentage] >>
      ELSE << >>

\* 4. Future projection.
\* math.log(2) / math.log(1 + avg_monthly_earnings / current_balance):
\* Fault where it raises, else [statements |-> the insight or nothing].
\* With both operands Python numbers a zero current_balance raises
\* ZeroDivisionError; a numpy operand divides to inf, whose logarithm is inf.
\* math.log raises ValueError for an argument <= 0.
projection_insight(m, scalars) ==
  IF m.months_invested > 0 /\ Num(m.avg_monthly_earnings) > 0
  THEN LET avg == m.avg_monthly_earnings
           cb  == m.current_balance
           emitted == [statements |->
                        << [kind                 |-> "projection",
                            tier                 |-> "doubling",
                            current_balance      |-> cb,
                            avg_monthly_earnings |-> avg] >>]
       IN  IF cb = 0
           THEN (IF scalars = "python" THEN Fault("ZeroDivisionError") ELSE emitted)
           ELSE IF cb < 0 /\ cb * Den(avg) + Num(avg) >= 0
           THEN Fault("ValueError")
           ELSE emitted
  ELSE [statements |-> << >>]

\* 5. Current month against the previous month.
InMonth(df, year, month) ==
  SelectSeq(df, LAMBDA r : Month(r.Date) = month /\ Year(r.Date) = year)

\* The tier of ((current - prev) / prev) * 100 for balances >= 0; a zero
\* prev_balance (numpy scalars) gives inf or nan as in growth_tier.
month_tier(prev_balance, current_balance) ==
  IF prev_balance = 0
  THEN (IF current_balance > 0 THEN "outstanding" ELSE "changed")
  ELSE IF (current_balance - prev_balance) * 100 > 5 * prev_balance THEN "outstanding"
  ELSE IF (current_balance - prev_balance) * 100 > 2 * prev_balance THEN "strong"
  ELSE IF current_balance - prev_balance > 0 THEN "positive"
  ELSE "changed"

month_insight(df, now) ==
  LET current_year       == now[1]
      current_month      == now[2]
      current_month_data == InMonth(df, current_year, current_month)
  IN  IF ~empty(current_month_data)
      THEN LET previous_month == IF current_month > 1 THEN current_month - 1 ELSE 12
               previous_year  == IF current_month > 1 THEN current_year
                                 ELSE current_year - 1
               previous_month_data == InMonth(df, previous_year, previous_month)
           IN  IF ~empty(previous_month_data)
               THEN LET prev_balance    == previous_month_data[Len(previous_month_data)].Balance
                        current_balance == current_month_data[Len(current_month_data)].Balance
                    IN  << [kind            |-> "month",
                            tier            |-> month_tier(prev_balance, current_balance),
                            month           |-> current_month,
                            prev_balance    |-> prev_balance,
                            current_balance |-> current_balance] >>
               ELSE << >>
      ELSE << >>

\* The whole call: the statements in the order they are appended, or the
\* Fault that ends it.  sorted_df is the result sort_values produced.
\* "\n\n".join(insights): the statements with the separator between each two.
Separator == [kind |-> "separator", text |-> "\n\n"]

RECURSIVE join(_, _)
join(sep, strings) ==
  IF Len(strings) <= 1 THEN strings
  ELSE join(sep, SubSeq(strings, 1, Len(strings) - 1))
         \o <<sep, strings[Len(strings)]>>

appended_month_first(performance, growth, distribution, projection, month) ==
  month \o performance \o growth \o distribution \o projection

\* The list insights after the five sections ran, each appending its statement
\* or nothing.
appended(performance, growth, distribution, projection, month) ==
  performance \o growth \o distribution \o projection \o month

generate_local_insights(df, m, scalars, now, sorted_df) ==
  LET projection == projection_insight(m, scalars)
  IN  IF IsFault(projection) THEN projection
      ELSE LET statements == appended(<<performance_insight(m)>>,
                                      growth_insight(df, sorted_df),
                                      distribution_insight(df, m.total_invested),
                                      projection.statements,
                                      month_insight(df, now))
           IN  [statements |-> statements, text |-> join(Separator, statements)]

\* ------------------------------------------------- generate_portfolio_insights

\* What the world outside the function does during one call: the step that
\* raises on its own account ("none" if no step does) and the content of the
\* first choice of the API response, << >> for None, else <<text>> with the
\* text a sequence of characters.
NoCall == [raises |-> "none", content |-> << >>, made |-> FALSE]

Steps ==
  { "get_openai_client", "format_transactions_for_ai", "format_metrics_for_ai",
    "create", "choices" }

Contents == { << >>, << << >> >>, << <<"a">> >>, << <<" ", "a", " ", "b", "\n">> >> }

Calls ==
  { [raises |-> s, content |-> << >>, made |-> TRUE] : s \in Steps }
    \cup { [raises |-> "none", content |-> c, made |-> TRUE] : c \in Contents }

IsSpace(c) == c \in { " ", "\n", "\t" }

\* str.strip()
RECURSIVE strip(_)
strip(text) ==
  IF Len(text) = 0 THEN text
  ELSE IF IsSpace(text[1]) THEN strip(Tail(text))
  ELSE IF IsSpace(text[Len(text)]) THEN strip(SubSeq(text, 1, Len(text) - 1))
  ELSE text

\* format_metrics_for_ai reads the five keys of the record.
format_metrics_for_ai(m) ==
  IF "total_invested" \in DOMAIN m THEN [formatted |-> m] ELSE Fault("KeyError")

\* The body of the try block: the Fault of the first step that raises, else
\* the stripped content.
portfolio_insights_body(df, m, call) ==
  IF call.raises = "get_openai_client" THEN Fault("get_openai_client")
  ELSE IF call.raises = "format_transactions_for_ai"
  THEN Fault("format_transactions_for_ai")
  ELSE IF call.raises = "format_metrics_for_ai" THEN Fault("format_metrics_for_ai")
  ELSE IF IsFault(format_metrics_for_ai(m)) THEN format_metrics_for_ai(m)
  ELSE IF call.raises = "create" THEN Fault("create")
  ELSE IF call.raises = "choices" THEN Fault("IndexError")
  ELSE IF call.content = << >> THEN Fault("AttributeError")
  ELSE [text |-> strip(call.content[1])]

except_none(outcome) == outcome

\* except Exception as e: return the warning carrying str(e).
except_Exception(outcome) ==
  IF IsFault(outcome) THEN [warning |-> outcome.fault] ELSE outcome

generate_portfolio_insights(df, m, call) ==
  except_Exception(portfolio_insights_body(df, m, call))

\* ------------------------------------------------------ the transaction log

\* A DataFrame with its index: each row carries its index label beside the
\* columns.
Labelled(label, row) ==
  [index       |-> label,
   Date        |-> row.Date,
   Investment  |-> row.Investment,
   Balance     |-> row.Balance,
   AccountType |-> row.AccountType]

RowOf(e) == Row(e.Date, e.Investment, e.Balance, e.AccountType)

\* The rows of a frame without the index.
values(frame) == [i \in 1..Len(frame) |-> RowOf(frame[i])]

\* The rows under a fresh RangeIndex 0..n-1: what read_csv, concat with
\* ignore_index=True and reset_index(drop=True) give.
RangeIndex(rows) == [i \in 1..Len(rows) |-> Labelled(i - 1, rows[i])]

\* A Date cell pd.to_datetime(errors='coerce') could not parse.
NaT == << >>

\* df.dropna(subset=['Date']): the labels of the rows that stay are kept.
dropna_Date(frame) == SelectSeq(frame, LAMBDA e : e.Date # NaT)

\* process_sheet_data: the possible results, one per outcome of the sort.
process_sheet_data(sheet) == sort_values(dropna_Date(RangeIndex(sheet)))

\* sort_values(by='Date', ascending=False)
sort_values_descending(frame) ==
  { s \in { Reorder(frame, f) : f \in Permutations(1..Len(frame)) } :
      \A i \in 1..(Len(s) - 1) : DateLE(s[i + 1].Date, s[i].Date) }

\* DataFrame.drop_duplicates(): the first of each group of equal rows stays,
\* with its label.
RECURSIVE drop_duplicates(_)
drop_duplicates(frame) ==
  IF Len(frame) = 0 THEN frame
  ELSE LET front == drop_duplicates(SubSeq(frame, 1, Len(frame) - 1))
           last  == frame[Len(frame)]
       IN  IF \E i \in 1..Len(front) : RowOf(front[i]) = RowOf(last)
           THEN front
           ELSE Append(front, last)

\* pd.concat([a, b], ignore_index=True)
concat(a, b) == RangeIndex(values(a) \o values(b))

\* DataFrame.drop(label): every row under that label goes.
drop(frame, label) == SelectSeq(frame, LAMBDA e : e.index # label)

\* strftime('%m/%d/%Y') and pd.to_datetime(format='%m/%d/%Y')
strftime(date) == <<Month(date), Day(date), Year(date)>>

to_datetime(text) == <<text[3], text[1], text[2]>>

\* A missing Account Type is written as an empty field and read back missing.
csv_field(acct) == IF acct = NoLabel THEN "" ELSE acct

csv_value(field) == IF field = "" THEN NoLabel ELSE field

\* save_df['Date'] = ...strftime(...); save_df.to_csv(DATA_FILE, index=False)
to_csv(frame) ==
  [i \in 1..Len(frame) |->
     Row(strftime(frame[i].Date), frame[i].Investment, frame[i].Balance,
         csv_field(frame[i].AccountType))]

\* pd.read_csv(file) followed by the to_datetime of the Date column
read_csv(file) ==
  RangeIndex([i \in 1..Len(file) |->
     Row(to_datetime(file[i].Date), file[i].Investment, file[i].Balance,
         csv_value(file[i].AccountType))])

dropped_label_positional(idx, row) == idx

\* row['index'] of the displayed row: the label it has in the session table.
dropped_label(idx, row) == row.index

\* The delete button of the row displayed at position idx.
delete(transactions, idx, row) ==
  RangeIndex(values(drop(transactions, dropped_label(idx, row))))

\* The import of an uploaded file, before the sort.
imported(transactions, file) ==
  drop_duplicates(concat(transactions, read_csv(file)))

\* The rows of the backup and of the uploaded files.
AppRows ==
  { Row(<<2024, 1, 1>>, <<100>>, 100, "TFSA"),
    Row(<<2024, 2, 1>>, <<100>>, 115, "TFSA"),
    Row(<<2024, 2, 1>>, Missing, 216, "TFSA") }

\* The rows of the Google Sheet: two dated rows and one whose date does not
\* parse.
SheetRows ==
  { Row(<<2024, 1, 1>>, <<100>>, 100, "TFSA"),
    Row(<<2024, 2, 1>>, <<100>>, 115, "TFSA"),
    Row(NaT, <<0>>, 0, "-") }

Sheets == UNION { [1..n -> SheetRows] : n \in 0..MaxRows }

UploadedFiles ==
  { to_csv(RangeIndex(t)) :
      t \in UNION { [1..n -> AppRows \cup { Row(<<2024, 2, 1>>, <<0>>, 100, NoLabel) }] :
                      n \in 1..(MaxRows - 1) } }

\* The non-empty tables load_data_from_sheet() can return.
LoadedTables == (UNION { process_sheet_data(sheet) : sheet \in Sheets }) \ { << >> }

NoFile == << >>

NoClick == [clicked |-> FALSE]

\* ------------------------------------------------------------------- state

VARIABLES
  df,        \* the caller's transaction table
  metrics,   \* the metrics record the caller holds (NoMetrics before the first call)
  scalars,   \* "numpy" or "python": the number type of the metrics record's values
  called,    \* the function that returned last
  passed,    \* the table as it was when that function was called
  now,       \* <<year, month>> datetime.now() gave the last generate_local_insights
  insights,  \* what the last insight generator returned
  openai,    \* what the client and the API did in the last generate_portfolio_insights
  transactions, \* st.session_state.transactions, a frame with its index
  DATA_FILE,    \* NoFile, or <<the rows of transactions.csv>>
  clicked       \* the delete button the last run handled: the table before and the row

vars == <<df, metrics, scalars, called, passed, now, insights, openai,
          transactions, DATA_FILE, clicked>>

session == <<transactions, DATA_FILE, clicked>>

NoMetrics == [none |-> TRUE]

NoInsights == [none |-> TRUE]

\* The months datetime.now() is read in: a January (its previous month is
\* December of the year before), a February, and a month without rows.
NowMonths == { <<2024, 1>>, <<2024, 2>>, <<2024, 3>> }

\* Metrics records a caller may hand over without having derived them from
\* the table.
CallerMetrics ==
  [total_invested       : {0, 100},
   current_balance      : {-1, 0, 100},
   total_earnings       : {-5, 0, 8, 10, 15, 16},
   avg_monthly_earnings : {Frac(0, 1), Frac(1, 1), Frac(3, 1)},
   months_invested      : {0, 2}]

\* The caller holds a table and has computed nothing yet.
InitTable ==
  /\ df \in Tables \cup ScenarioTables
  /\ metrics = NoMetrics
  /\ scalars = "python"

\* The caller holds a table of at most one row and a metrics record of its own.
InitMetrics ==
  /\ df \in { t \in Tables : Len(t) <= 1 }
  /\ metrics \in CallerMetrics
  /\ scalars \in {"numpy", "python"}

NothingCalled ==
  /\ called = "none"
  /\ passed = << >>
  /\ now = <<0, 0>>
  /\ insights = NoInsights
  /\ openai = NoCall

\* No Streamlit session is running.
NoSession ==
  /\ transactions = << >>
  /\ DATA_FILE = NoFile
  /\ clicked = NoClick

Init ==
  /\ InitTable \/ InitMetrics
  /\ NothingCalled
  /\ NoSession

\* metrics = calculate_metrics(df).  The reductions of a non-empty table
\* return numpy scalars; the empty-table branches return Python ints.
CalculateMetrics ==
  /\ metrics' = calculate_metrics(df)
  /\ scalars' = IF empty(df) THEN "python" ELSE "numpy"
  /\ called' = "calculate_metrics"
  /\ passed' = df
  /\ UNCHANGED <<df, now, insights, openai, session>>

\* insights = generate_local_insights(df, metrics)
GenerateLocalInsights ==
  /\ metrics # NoMetrics
  /\ ~IsFault(metrics)
  /\ \E t \in NowMonths, sorted_df \in sort_values(df) :
       /\ now' = t
       /\ insights' = generate_local_insights(df, metrics, scalars, t, sorted_df)
       /\ df' = df_after_sort_values(df, sorted_df)
  /\ called' = "generate_local_insights"
  /\ passed' = df
  /\ UNCHANGED <<metrics, scalars, openai, session>>

\* insights = generate_portfolio_insights(df, metrics, api_key)
GeneratePortfolioInsights ==
  /\ \E call \in Calls :
       /\ openai' = call
       /\ insights' = generate_portfolio_insights(df, metrics, call)
  /\ called' = "generate_portfolio_insights"
  /\ passed' = df
  /\ UNCHANGED <<df, metrics, scalars, now, session>>

Next ==
  \/ CalculateMetrics
  \/ GenerateLocalInsights

Spec == Init /\ [][Next]_vars

\* A caller of the AI-backed path: a table, then calculate_metrics and
\* generate_portfolio_insights in any order.
InitAI == InitTable /\ NothingCalled /\ NoSession

NextAI ==
  \/ CalculateMetrics
  \/ GeneratePortfolioInsights

SpecAI == InitAI /\ [][NextAI]_vars

\* The Streamlit session of main.py: the first run loads the table, later runs
\* handle Refresh, a delete button or an uploaded file.
library == <<df, metrics, scalars, passed, now, insights, openai>>

InitApp ==
  /\ df = << >>
  /\ metrics = NoMetrics
  /\ scalars = "python"
  /\ NothingCalled
  /\ transactions = << >>
  /\ DATA_FILE \in { NoFile } \cup { <<to_csv(RangeIndex(t))>> :
                       t \in UNION { [1..n -> AppRows] : n \in 0..2 } }
  /\ clicked = NoClick

\* load_data_from_sheet() gave a non-empty table: it becomes the session table
\* and is written to the backup.
LoadFromSheet ==
  /\ \E loaded \in LoadedTables :
       /\ transactions' = loaded
       /\ DATA_FILE' = <<to_csv(loaded)>>
  /\ called' = "load_data_from_sheet"
  /\ clicked' = NoClick
  /\ UNCHANGED library

\* load_data_from_sheet() gave None or an empty table: the backup is read if
\* it exists, else the session starts empty.
LoadFromBackup ==
  /\ transactions' = IF DATA_FILE # NoFile THEN read_csv(DATA_FILE[1]) ELSE << >>
  /\ called' = "read_csv"
  /\ clicked' = NoClick
  /\ UNCHANGED <<DATA_FILE, library>>

\* The delete button of a displayed row.
Delete ==
  /\ called # "none"
  /\ ~empty(transactions)
  /\ \E sorted_transactions \in sort_values_descending(transactions) :
       \E idx \in 0..(Len(sorted_transactions) - 1) :
         LET row == sorted_transactions[idx + 1]
         IN  /\ transactions' = delete(transactions, idx, row)
             /\ DATA_FILE' = <<to_csv(delete(transactions, idx, row))>>
             /\ clicked' = [clicked |-> TRUE, before |-> transactions, row |-> row]
  /\ called' = "delete"
  /\ UNCHANGED library

\* An uploaded CSV file.
Import ==
  /\ called # "none"
  /\ ~empty(transactions)
  /\ \E file \in UploadedFiles :
       /\ Len(transactions) + Len(file) <= MaxRows
       /\ \E sorted \in sort_values(imported(transactions, file)) :
            /\ transactions' = sorted
            /\ DATA_FILE' = <<to_csv(sorted)>>
  /\ called' = "import"
  /\ clicked' = NoClick
  /\ UNCHANGED library

NextApp ==
  \/ LoadFromSheet
  \/ LoadFromBackup
  \/ Delete
  \/ Import

SpecApp == InitApp /\ [][NextApp]_vars

\* ------------------------------------------------------------------ claims

Returned(r) == "statements" \in DOMAIN r

\* Every row order of a table.
RowOrders(t) == { Reorder(t, f) : f \in Permutations(1..Len(t)) }

IsEarliestDate(d, t) == \A i \in 1..Len(t) : Ordinal(d) <= Ordinal(t[i].Date)

IsLatestDate(d, t) == \A i \in 1..Len(t) : Ordinal(t[i].Date) <= Ordinal(d)

\* The statements of the given kind in what generate_local_insights returned.
StatementsOf(kind) ==
  IF Returned(insights)
  THEN SelectSeq(insights.statements, LAMBDA st : st.kind = kind)
  ELSE << >>

Computed == called = "calculate_metrics"

Generated == called = "generate_local_insights"

\* C1: calculate_metrics returns the same five values for every permutation
\* of the rows of the table it was given.
C1_OrderIndependence ==
  Computed => \A p \in RowOrders(df) : calculate_metrics(p) = metrics

\* C2: for a non-empty table in any row order, current_balance is the Total
\* Balance of a row whose Date is the maximum Date of the table.
C2_CurrentBalanceOfLatestDate ==
  (Computed /\ ~empty(df)) =>
    /\ ~IsFault(metrics)
    /\ \E i \in 1..Len(df) :
         /\ IsLatestDate(df[i].Date, df)
         /\ df[i].Balance = metrics.current_balance

\* C3: calculate_metrics never fails, and an empty table yields five zeros.
C3_NeverFailsEmptyAllZero ==
  Computed =>
    /\ ~IsFault(metrics)
    /\ empty(df) =>
         /\ metrics.total_invested = 0
         /\ metrics.current_balance = 0
         /\ metrics.total_earnings = 0
         /\ metrics.months_invested = 0
         /\ Num(metrics.avg_monthly_earnings) = 0

C3_EmptyTableComputed == Computed /\ empty(df) /\ ~IsFault(metrics)

\* The sum of the Investment cells of rows 1..n, a missing cell counting 0.
InvestedUpTo[n \in 0..(MaxRows + 1)] ==
  IF n = 0 \/ n > Len(df) THEN 0
  ELSE InvestedUpTo[n - 1]
         + (IF df[n].Investment = Missing THEN 0 ELSE df[n].Investment[1])

\* C4: total_earnings = current_balance - total_invested, with total_invested
\* the sum of Investment over all rows; the result may be negative.
C4_EarningsIdentity ==
  Computed =>
    /\ ~IsFault(metrics)
    /\ metrics.total_invested = InvestedUpTo[Len(df)]
    /\ metrics.total_earnings = metrics.current_balance - metrics.total_invested

C4_NegativeEarningsComputed ==
  /\ Computed
  /\ ~IsFault(metrics)
  /\ Len(df) >= 2
  /\ \E i \in 1..Len(df) : df[i].Investment = Missing
  /\ metrics.total_invested > 0
  /\ metrics.total_earnings < 0

\* C5: months_invested is the whole-month difference between the minimum and
\* the maximum Date whatever the row order, hence >= 0: 0 for one row or one
\* calendar month, 1 for Jan 31 to Feb 1.
C5_MonthsFromMinAndMaxDate ==
  Computed =>
    /\ ~IsFault(metrics)
    /\ metrics.months_invested >= 0
    /\ empty(df) => metrics.months_invested = 0
    /\ \A i, j \in 1..Len(df) :
         (IsEarliestDate(df[i].Date, df) /\ IsLatestDate(df[j].Date, df)) =>
           /\ metrics.months_invested =
                (Year(df[j].Date) - Year(df[i].Date)) * 12
                  + (Month(df[j].Date) - Month(df[i].Date))
           /\ (Year(df[i].Date) = Year(df[j].Date)
                 /\ Month(df[i].Date) = Month(df[j].Date))
                => metrics.months_invested = 0

\* Jan 31 to Feb 1 in a table whose first row is the later one.
C5_UnsortedJan31Feb1Computed ==
  /\ Computed
  /\ ~IsFault(metrics)
  /\ Len(df) = 2
  /\ df[1].Date = <<2024, 2, 1>>
  /\ df[2].Date = <<2024, 1, 31>>
  /\ metrics.months_invested = 1

\* C6: avg_monthly_earnings = total_earnings / max(months_invested, 1): it is
\* defined when months_invested = 0, where it equals total_earnings, and
\* avg_monthly_earnings * max(months_invested, 1) = total_earnings.
C6_AverageIsGuardedQuotient ==
  Computed =>
    /\ ~IsFault(metrics)
    /\ LET floor_1 == IF metrics.months_invested >= 1
                      THEN metrics.months_invested ELSE 1
           avg     == metrics.avg_monthly_earnings
       IN  /\ Den(avg) > 0
           /\ Num(avg) * floor_1 = metrics.total_earnings * Den(avg)
           /\ metrics.months_invested = 0 =>
                (Den(avg) = 1 /\ Num(avg) = metrics.total_earnings)

C6_ZeroMonthsComputed ==
  /\ Computed
  /\ ~IsFault(metrics)
  /\ ~empty(df)
  /\ metrics.months_invested = 0
  /\ metrics.total_earnings # 0

\* C7: calculate_metrics and generate_local_insights leave the caller's
\* table as it was: the same rows in the same order.
C7_TableUnchanged ==
  called # "none" => df = passed

\* generate_local_insights sorted a table that was not in Date order.
C7_UnsortedTableGenerated ==
  /\ Generated
  /\ Returned(insights)
  /\ ~IsSortedByDate(df)
  /\ Len(StatementsOf("growth")) = 1

\* The first statement is the overall-performance insight of metrics record
\* m: roi_percent = total_earnings / total_invested * 100, or 0 when
\* total_invested is not positive, and the tier the thresholds 15, 8, 0 give.
IsPerformanceOf(st, m) ==
  /\ st.kind = "performance"
  /\ IF m.total_invested > 0
     THEN Num(st.roi_percent) * m.total_invested
            = m.total_earnings * 100 * Den(st.roi_percent)
     ELSE Num(st.roi_percent) = 0
  /\ Den(st.roi_percent) > 0
  /\ st.tier =
       IF Num(st.roi_percent) > 15 * Den(st.roi_percent) THEN "excellent"
       ELSE IF Num(st.roi_percent) > 8 * Den(st.roi_percent) THEN "good"
       ELSE IF Num(st.roi_percent) > 0 THEN "positive"
       ELSE "flat/negative"

\* C8: for every metrics record generate_local_insights emits the
\* overall-performance insight as its first statement, with the guarded
\* roi_percent and the first-match tier (15, 8 and 0 fall in the lower tier).
C8_PerformanceAlwaysFirst ==
  Generated =>
    /\ Returned(insights)
    /\ Len(insights.statements) >= 1
    /\ IsPerformanceOf(insights.statements[1], metrics)

\* C8 for the calls that return: whenever generate_local_insights returns,
\* its first statement is the overall-performance insight.
PerformanceFirstWhenReturned ==
  (Generated /\ Returned(insights)) =>
    /\ Len(insights.statements) >= 1
    /\ IsPerformanceOf(insights.statements[1], metrics)

\* Rows that share the earliest Date share one Total Balance, and so do rows
\* that share the latest Date.
TiesAgree(t) ==
  \A i, j \in 1..Len(t) :
    /\ (IsEarliestDate(t[i].Date, t) /\ IsEarliestDate(t[j].Date, t))
         => t[i].Balance = t[j].Balance
    /\ (IsLatestDate(t[i].Date, t) /\ IsLatestDate(t[j].Date, t))
         => t[i].Balance = t[j].Balance

\* The emitted growth insight used the Total Balance of a row of the earliest
\* Date and of a row of the latest Date.
GrowthFromEarliestAndLatest(g) ==
  \E i, j \in 1..Len(df) :
    /\ IsEarliestDate(df[i].Date, df) /\ df[i].Balance = g.first_balance
    /\ IsLatestDate(df[j].Date, df) /\ df[j].Balance = g.last_balance

\* Every row order of the table, sorted in any way sort_values may sort it,
\* emits the growth insight with the tier of g.
SameTierForEveryOrder(g) ==
  \A p \in RowOrders(df) : \A s \in sort_values(p) :
    /\ growth_insight(p, s) # << >>
    /\ growth_insight(p, s)[1].tier = g.tier

GrowthEmitted == Generated /\ Len(StatementsOf("growth")) = 1

\* C9 as stated: an emitted growth insight is computed from the earliest and
\* the latest row for every row order, so its tier is the same for every
\* permutation of the rows.
C9_GrowthTierOrderIndependent ==
  GrowthEmitted =>
    /\ GrowthFromEarliestAndLatest(StatementsOf("growth")[1])
    /\ SameTierForEveryOrder(StatementsOf("growth")[1])

\* C9 as amended: an emitted growth insight is computed from a row of the
\* earliest Date and a row of the latest Date for every row order; its tier
\* is the same for every permutation when the rows sharing the earliest Date
\* have one Total Balance and the rows sharing the latest Date have one.
C9_GrowthTierOrderIndependentUnlessTied ==
  GrowthEmitted =>
    /\ GrowthFromEarliestAndLatest(StatementsOf("growth")[1])
    /\ TiesAgree(df) => SameTierForEveryOrder(StatementsOf("growth")[1])

\* The growth insight of a table whose first row is dated after its last.
C9_UnsortedGrowthEmitted ==
  /\ GrowthEmitted
  /\ TiesAgree(df)
  /\ Ordinal(df[1].Date) > Ordinal(df[Len(df)].Date)
  /\ StatementsOf("growth")[1].first_balance # StatementsOf("growth")[1].last_balance

\* The account types of the rows that carry a real label and a positive
\* Investment.
FundedTypes(t) ==
  { t[i].AccountType : i \in { k \in 1..Len(t) :
      /\ t[k].AccountType # NoLabel
      /\ t[k].AccountType # "-"
      /\ t[k].Investment # Missing
      /\ t[k].Investment[1] > 0 } }

\* C10: the account-concentration insight is emitted if and only if at least
\* two distinct account types occur among the rows with a real label and
\* Investment > 0.
C10_ConcentrationIffTwoFundedTypes ==
  (Generated /\ Returned(insights)) =>
    (Len(StatementsOf("distribution")) = 1 <=> Cardinality(FundedTypes(df)) >= 2)

\* The summed positive Investment of the first n rows of df that carry the
\* given account type.
RECURSIVE LabelledUpTo(_, _)
LabelledUpTo(label, n) ==
  IF n = 0 THEN 0
  ELSE LabelledUpTo(label, n - 1)
         + (IF /\ df[n].AccountType = label
               /\ df[n].Investment # Missing
               /\ df[n].Investment[1] > 0
            THEN df[n].Investment[1] ELSE 0)

LabelledSum(label) == LabelledUpTo(label, Len(df))

RealLabels ==
  { df[i].AccountType : i \in 1..Len(df) } \ { NoLabel, "-" }

ConcentrationEmitted ==
  Generated /\ Returned(insights) /\ Len(StatementsOf("distribution")) = 1

\* C11: an emitted account-concentration insight names an account type with
\* the maximum summed Investment, reports that sum as a percentage of the
\* metrics' total_invested (0 when total_invested is not positive), and takes
\* its tier from > 80, then > 60, else balanced; the table of 900 and 100
\* gives 90 percent, heavily concentrated.
C11_ConcentrationOfLargestType ==
  ConcentrationEmitted =>
    LET st  == StatementsOf("distribution")[1]
        sum == LabelledSum(st.max_account)
        ti  == metrics.total_invested
    IN  /\ st.max_account \in RealLabels
        /\ \A l \in RealLabels : LabelledSum(l) <= sum
        /\ IF ti > 0
           THEN st.percentage = Frac(sum * 100, ti)
           ELSE st.percentage = Frac(0, 1)
        /\ st.tier = "heavily concentrated"
             <=> Num(st.percentage) > 80 * Den(st.percentage)
        /\ st.tier = "significant allocation"
             <=> /\ Num(st.percentage) <= 80 * Den(st.percentage)
                 /\ Num(st.percentage) > 60 * Den(st.percentage)
        /\ st.tier = "balanced"
             <=> Num(st.percentage) <= 60 * Den(st.percentage)
        /\ (df \in ScenarioTables /\ metrics = calculate_metrics(df)) =>
             /\ st.max_account = "TFSA"
             /\ st.percentage = Frac(90, 1)
             /\ st.tier = "heavily concentrated"

C11_NinetyPercentEmitted ==
  /\ ConcentrationEmitted
  /\ df \in ScenarioTables
  /\ StatementsOf("distribution")[1].percentage = Frac(90, 1)

C11_SignificantEmitted ==
  /\ ConcentrationEmitted
  /\ StatementsOf("distribution")[1].tier = "significant allocation"

\* 1 + avg_monthly_earnings / current_balance <= 0, for a non-zero
\* current_balance.
LogArgumentNotPositive(m) ==
  LET avg == m.avg_monthly_earnings
      cb  == m.current_balance
  IN  \/ cb > 0 /\ cb * Den(avg) + Num(avg) <= 0
      \/ cb < 0 /\ cb * Den(avg) + Num(avg) >= 0

\* C12: for every metrics record handed to generate_local_insights the
\* doubling-time projection raises nothing, is emitted only if
\* months_invested > 0 and avg_monthly_earnings > 0, and is skipped when
\* current_balance = 0 or the logarithm argument is <= 0.
C12_ProjectionGuarded ==
  Generated =>
    /\ ~IsFault(insights)
    /\ Len(StatementsOf("projection")) = 1 =>
         /\ metrics.months_invested > 0
         /\ Num(metrics.avg_monthly_earnings) > 0
    /\ (metrics.current_balance = 0 \/ LogArgumentNotPositive(metrics)) =>
         Len(StatementsOf("projection")) = 0

\* The Total Balances of the rows of df that carry the latest Date within the
\* given calendar month.
LatestBalancesIn(year, month) ==
  LET inside == { i \in 1..Len(df) :
                    Year(df[i].Date) = year /\ Month(df[i].Date) = month }
  IN  { df[i].Balance : i \in { k \in inside :
          \A j \in inside : Ordinal(df[j].Date) <= Ordinal(df[k].Date) } }

PreviousMonthOf(t) ==
  IF t[2] > 1 THEN <<t[1], t[2] - 1>> ELSE <<t[1] - 1, 12>>

\* C13: when rows exist for the current and for the preceding calendar month,
\* the month-over-month insight is computed from the Total Balance of a row
\* with the latest Date within each of the two months, in every row order.
C13_MonthOverMonthFromLatestRows ==
  (Generated /\ Returned(insights)) =>
    LET prev      == PreviousMonthOf(now)
        current_b == LatestBalancesIn(now[1], now[2])
        prev_b    == LatestBalancesIn(prev[1], prev[2])
    IN  (current_b # {} /\ prev_b # {}) =>
          /\ Len(StatementsOf("month")) = 1
          /\ StatementsOf("month")[1].prev_balance \in prev_b
          /\ StatementsOf("month")[1].current_balance \in current_b

\* The position of each kind of statement in the fixed order.
Rank(kind) ==
  CASE kind = "performance"  -> 1
    [] kind = "growth"       -> 2
    [] kind = "distribution" -> 3
    [] kind = "projection"   -> 4
    [] kind = "month"        -> 5
    [] OTHER                 -> 0

\* C14: the returned text is the emitted statements joined by one uniform
\* separator, in the order performance, growth trend, account concentration,
\* projection, month-over-month; each appears at most once and there are at
\* most 5.
C14_StatementsJoinedInFixedOrder ==
  (Generated /\ Returned(insights)) =>
    LET st   == insights.statements
        text == insights.text
        n    == Len(st)
    IN  /\ n <= 5
        /\ \A i \in 1..n : Rank(st[i].kind) \in 1..5
        /\ \A i \in 1..n : \A j \in 1..n :
             i < j => Rank(st[i].kind) < Rank(st[j].kind)
        /\ Len(text) = IF n = 0 THEN 0 ELSE 2 * n - 1
        /\ \A i \in 1..Len(text) :
             IF i % 2 = 1 THEN text[i] = st[(i + 1) \div 2]
             ELSE text[i] = Separator

C14_AllFiveJoined ==
  /\ Generated
  /\ Returned(insights)
  /\ Len(insights.statements) = 5
  /\ Len(insights.text) = 9

\* A later statement is emitted although an earlier gate failed.
C14_MonthWithoutGrowthJoined ==
  /\ Generated
  /\ Returned(insights)
  /\ Len(StatementsOf("growth")) = 0
  /\ Len(StatementsOf("month")) = 1

Portfolio == called = "generate_portfolio_insights"

\* A step of the last generate_portfolio_insights call failed.
StepFailed ==
  \/ openai.raises # "none"
  \/ openai.content = << >>
  \/ metrics = NoMetrics

\* C15: generate_portfolio_insights never raises; when a step fails it returns
\* one warning string, and otherwise the model's text.
C15_PortfolioInsightsNeverRaise ==
  Portfolio =>
    /\ ~IsFault(insights)
    /\ StepFailed => DOMAIN insights = {"warning"}
    /\ ~StepFailed => insights = [text |-> strip(openai.content[1])]

C15_WarningReturned ==
  /\ Portfolio
  /\ openai.raises = "create"
  /\ insights = [warning |-> "create"]

C15_TextReturned ==
  /\ Portfolio
  /\ insights = [text |-> <<"a", " ", "b">>]

WellFormed(t) ==
  \A i \in 1..Len(t) :
    /\ t[i].Investment # Missing
    /\ t[i].Investment[1] >= 0
    /\ t[i].Balance >= 0

\* C16: for a well-formed non-empty table and the metrics calculate_metrics
\* derives from it, generate_local_insights raises nothing and evaluates
\* none of its three divisions (by first_balance, by current_balance, by the
\* previous month's balance) with a zero divisor.
C16_NoZeroDivisor ==
  (Generated /\ ~empty(df) /\ WellFormed(df) /\ metrics = calculate_metrics(df)) =>
    /\ ~IsFault(insights)
    /\ \A i \in 1..Len(StatementsOf("growth")) :
         StatementsOf("growth")[i].first_balance # 0
    /\ \A i \in 1..Len(StatementsOf("projection")) :
         StatementsOf("projection")[i].current_balance # 0
    /\ \A i \in 1..Len(StatementsOf("month")) :
         StatementsOf("month")[i].prev_balance # 0

Deleted == called = "delete"

\* The sequence without its element at position p.
RemoveAt(seq, p) ==
  [i \in 1..(Len(seq) - 1) |-> IF i < p THEN seq[i] ELSE seq[i + 1]]

\* C17: the delete button of a displayed row removes exactly that row from
\* the session table and leaves every other row, equal ones included, as it
\* was and where it was; the backup written next holds exactly the remaining
\* rows.
C17_DeleteRemovesExactlyThatRow ==
  Deleted =>
    LET before == clicked.before
        row    == clicked.row
        at     == { p \in 1..Len(before) : before[p] = row }
    IN  /\ Cardinality(at) = 1
        /\ \A p \in at : values(transactions) = RemoveAt(values(before), p)
        /\ DATA_FILE # NoFile
        /\ Len(DATA_FILE[1]) = Len(transactions)
        /\ values(read_csv(DATA_FILE[1])) = values(transactions)

\* One of two equal rows is deleted from a table whose labels are not the
\* positions.
C17_EqualRowDeleted ==
  /\ Deleted
  /\ \E i \in 1..Len(clicked.before) : \E j \in 1..Len(clicked.before) :
       /\ i # j
       /\ RowOf(clicked.before[i]) = RowOf(clicked.before[j])
       /\ clicked.before[i] = clicked.row
       /\ clicked.before[i].index # i - 1
  /\ Len(transactions) = MaxRows - 1

\* A row is deleted after an import left a gap in the labels.
C17_DeletedAfterImport ==
  /\ Deleted
  /\ \E i \in 1..Len(clicked.before) : clicked.before[i].index >= Len(clicked.before)
  /\ \E i \in 1..Len(clicked.before) : clicked.before[i].AccountType = NoLabel

====
